---- MODULE Spec2Model ----
(***************************************************************************)
(* Traffic-Sim-360 (src/project.py): three threads share a stop event.     *)
(*   main     run_traffic_system: runs TrafficSystem.controller's          *)
(*            manage_traffic, sets the stop event, joins the two threads   *)
(*   sensor   TrafficSystem.start_sensors: samples three sensors, records  *)
(*            the samples and sends each over a fresh TCP connection       *)
(*   server   Server.start_server: binds, polls accept with a 1 s timeout, *)
(*            and runs Server.traffic_controller's manage_traffic for      *)
(*            every non-empty record it decodes                            *)
(* Time is not modelled: a sleep or a timeout ends at any moment.          *)
(*  Timestamps of log entries are left out; the timestamp   *)
(* of a producer cycle is the number of the cycle.                         *)
(***************************************************************************)
EXTENDS Integers, Sequences, FiniteSets, TLC

\* ---- program constants -------------------------------------------------
MAX_VEHICLES == 5
GREEN_THRESHOLD == 60
\* self.iterations as TrafficController.__init__ sets it
ITERATIONS == 10

\* ---- bounds of the model -----------------------------------------------
\* self.iterations (10 in the code) as explored with all three threads running
Iterations == 1
\* self.iterations as explored with the main thread not yet scheduled
LongIterations == 2
\* sampled vehicle counts explored: 0 .. min(MAX_VEHICLES, MaxSample)
MaxSample == 1
\* producer cycles explored
MaxCycles == 1
\* connections ever made to the listener, with every sampled count explored
MaxConns == 1
\* connections ever made to the listener, with the sampled counts fixed
ControlConns == 2
\* producer cycles explored, with the sampled counts fixed
ControlCycles == 2

\* ---- names ---------------------------------------------------------------
\* TrafficController.intersections, in dict (insertion) order
Names == << "Intersection 1", "Intersection 2", "Intersection 3" >>
Idx == DOMAIN Names
\* the two TrafficController instances of a run
SystemController == "system"
ServerController == "server"
Controllers == {SystemController, ServerController}

Min(a, b) == IF a < b THEN a ELSE b

\* random.randint(lo, hi)
randint(lo, hi) == lo .. hi
\* the counts a sample may yield in the explored runs
SampleCounts == randint(0, Min(MAX_VEHICLES, MaxSample))

EmptyDict == [n \in {} |-> 0]
DictSet(d, k, v) == [n \in (DOMAIN d) \cup {k} |-> IF n = k THEN v ELSE d[n]]

VARIABLES
    lights,           \* [controller -> [idx -> TrafficLight]]
    log,              \* LOG_FILE: sequence of entries
    calls,            \* [controller -> [idx -> number of switch_to_* calls begun]]
    mt,               \* [controller -> frame of its manage_traffic call]
    iterations,       \* [controller -> self.iterations]
    stop_event,       \* threading.Event
    main_pc,          \* position of run_traffic_system
    prod_pc,          \* position of start_sensors
    send_k,           \* which of data_1..data_3 is sent next
    sensors,          \* [idx -> Sensor.vehicle_count]
    network_traffic,  \* [timestamps, vehicle_counts]
    cycles,           \* producer cycles begun
    srv_pc,           \* position of start_server
    listening,        \* the listening socket is bound and open
    client_socket,    \* the local client_socket: "unbound" | "open" | "closed"
    open_accepted,    \* accepted connections not closed
    traffic_data,     \* the record decoded last, or NoData
    pending,          \* connections made and not yet accepted (their payloads)
    nconn             \* connections ever made to the listener

vars == << lights, log, calls, mt, iterations, stop_event, main_pc, prod_pc, send_k, sensors,
           network_traffic, cycles, srv_pc, listening, client_socket,
           open_accepted, traffic_data, pending, nconn >>

mainVars == << main_pc >>
prodVars == << prod_pc, send_k, sensors, network_traffic, cycles >>
srvVars  == << srv_pc, listening, client_socket, open_accepted, traffic_data >>
netVars  == << pending, nconn >>
ctlVars  == << lights, log, calls, mt, iterations >>

\* ---- TrafficLight --------------------------------------------------------
TrafficLight(intersection_name) ==
    [name |-> intersection_name, state |-> "RED", vehicle_count_history |-> << >>]

switch_to_green(light)  == [light EXCEPT !.state = "GREEN"]
switch_to_red(light)    == [light EXCEPT !.state = "RED"]
\* a state name outside the three the program uses
switch_to_amber(light)  == [light EXCEPT !.state = "AMBER"]
switch_to_yellow(light) == [light EXCEPT !.state = "YELLOW"]

update_vehicle_count(light, count) ==
    [light EXCEPT !.vehicle_count_history = Append(@, count)]

get_vehicle_count(light) == Len(light.vehicle_count_history)

\* the entry carrying the count observed last instead of the history length
log_entry_last_count(light) ==
    [intersection |-> light.name, state |-> light.state,
     vehicle_count |-> light.vehicle_count_history[Len(light.vehicle_count_history)]]
\* the entry log_traffic_data builds
log_entry(light) ==
    [intersection |-> light.name, state |-> light.state,
     vehicle_count |-> Len(light.vehicle_count_history)]

\* a switch that does not call log_traffic_data
unwritten_log(file, entry) == file
\* the file opened with 'w' instead of 'a'
truncating_log(file, entry) == << entry >>
\* open(LOG_FILE, 'a'); json.dump; write("\n"): one buffered append
append_log(file, entry) == Append(file, entry)

\* ---- TrafficController ---------------------------------------------------
TrafficController == [i \in Idx |-> TrafficLight(Names[i])]

\* the threshold on the scale of the sampled counts
decide_on_sample_scale(light, vehicle_count) ==
    IF vehicle_count > MAX_VEHICLES \div 2 THEN switch_to_green(light)
    ELSE IF vehicle_count = 0 THEN switch_to_red(light)
    ELSE switch_to_yellow(light)
\* the comparison with the threshold written >= instead of >
decide_at_threshold(light, vehicle_count) ==
    IF vehicle_count >= GREEN_THRESHOLD THEN switch_to_green(light)
    ELSE IF vehicle_count = 0 THEN switch_to_red(light)
    ELSE switch_to_yellow(light)
\* the branch of manage_traffic taken for vehicle_count, as the switch it calls
decide(light, vehicle_count) ==
    IF vehicle_count > GREEN_THRESHOLD THEN switch_to_green(light)
    ELSE IF vehicle_count = 0 THEN switch_to_red(light)
    ELSE switch_to_yellow(light)

IdleFrame ==
    [active |-> FALSE, iteration_count |-> 0, idx |-> 1, phase |-> "next",
     vehicle_count |-> 0, intersection_data |-> EmptyDict, evals |-> 0]

\* manage_traffic entered: iteration_count = 0, intersection_data = {}
CallFrame == [IdleFrame EXCEPT !.active = TRUE]

\* the loop condition written <= instead of <
loop_runs_once_more(iteration_count, n) == iteration_count <= n
\* while iteration_count < self.iterations
loop_continues(iteration_count, n) == iteration_count < n

\* the thread running controller c is inside manage_traffic
Running(c) ==
    /\ mt[c].active
    /\ IF c = SystemController THEN main_pc = "manage" ELSE srv_pc = "manage"

\* one controller object behind both threads
shared_controller(c) == SystemController
\* the controller object whose lights the call of frame c drives:
\* TrafficSystem.controller (line 133) for the main thread and
\* Server.traffic_controller (line 181), another object, for the server thread
controller_of(c) == c

\* lines 104-110/113/116, up to and including the switch's assignment of
\* self.state
MtEval(c, counts) ==
    /\ Running(c)
    /\ mt[c].phase = "next"
    /\ loop_continues(mt[c].iteration_count, iterations[c])
    /\ \E vehicle_count \in counts :
         /\ lights' = [lights EXCEPT ![controller_of(c)][mt[c].idx] =
                          decide(update_vehicle_count(@, vehicle_count), vehicle_count)]
         /\ mt' = [mt EXCEPT ![c].vehicle_count = vehicle_count,
                             ![c].phase = "log",
                             ![c].evals = @ + 1]
    /\ calls' = [calls EXCEPT ![c][mt[c].idx] = @ + 1]
    /\ UNCHANGED << log, iterations, stop_event, mainVars, prodVars, srvVars, netVars >>

\* log_traffic_data, called by the switch after it has set the state; then
\* lines 111/114/117-122.  The hold (time.sleep) is the time the frame then
\* spends in phase "next"; the assignment to the local intersection_data is
\* made here.
MtLog(c) ==
    /\ Running(c)
    /\ mt[c].phase = "log"
    /\ log' = append_log(log, log_entry(lights[controller_of(c)][mt[c].idx]))
    /\ mt' = [mt EXCEPT
                ![c].phase = "next",
                ![c].intersection_data = DictSet(@, Names[mt[c].idx], mt[c].vehicle_count),
                ![c].idx = IF mt[c].idx = Len(Names) THEN 1 ELSE @ + 1,
                ![c].iteration_count = IF mt[c].idx = Len(Names) THEN @ + 1 ELSE @]
    /\ UNCHANGED << lights, calls, iterations, stop_event, mainVars, prodVars, srvVars, netVars >>

\* the while loop is left and manage_traffic returns intersection_data
MtReturns(c) ==
    /\ Running(c)
    /\ mt[c].phase = "next"
    /\ ~ loop_continues(mt[c].iteration_count, iterations[c])

\* ---- run_traffic_system (main thread) ------------------------------------
\* manage_traffic returns to line 236; stop_event.set()
MainStop ==
    /\ MtReturns(SystemController)
    /\ mt' = [mt EXCEPT ![SystemController].active = FALSE]
    /\ stop_event' = TRUE
    /\ main_pc' = "join_sensor"
    /\ UNCHANGED << lights, log, calls, iterations, prodVars, srvVars, netVars >>

\* a join that does not wait
join_without_waiting(pc) == TRUE
\* Thread.join returns once the thread has ended, however it ended
thread_ended(pc) == pc \in {"exited", "bind_failed", "crashed"}

MainJoinSensor ==
    /\ main_pc = "join_sensor"
    /\ thread_ended(prod_pc)
    /\ main_pc' = "join_server"
    /\ UNCHANGED << ctlVars, stop_event, prodVars, srvVars, netVars >>

MainJoinServer ==
    /\ main_pc = "join_server"
    /\ thread_ended(srv_pc)
    /\ main_pc' = "ended"
    /\ UNCHANGED << ctlVars, stop_event, prodVars, srvVars, netVars >>

\* the main thread's steps, its random counts drawn from `counts`
MainSteps(counts) ==
    \/ MtEval(SystemController, counts)
    \/ MtLog(SystemController)
    \/ MainStop
    \/ MainJoinSensor
    \/ MainJoinServer

MainNext == MainSteps(SampleCounts)

\* ---- transport -----------------------------------------------------------
\* client.connect succeeds when the listener is open (and the explored number
\* of connections, conns, is not used up)
can_connect(conns) == listening /\ nconn < conns

Record(i, v) == [intersection |-> Names[i], vehicle_count |-> v]
NoData == [intersection |-> "", vehicle_count |-> 0]

\* threading.Event.is_set()
never_set(event) == FALSE
is_set(event) == event

\* ---- TrafficSystem.start_sensors (sensor thread) -------------------------
\* while not stop_event.is_set(): sample the three sensors, record the samples
ProdCycle(counts, max_cycles) ==
    /\ prod_pc = "loop"
    /\ ~ is_set(stop_event)
    /\ cycles < max_cycles
    /\ \E s \in [Idx -> counts] :
         /\ sensors' = s
         /\ network_traffic' =
              [timestamps    |-> Append(network_traffic.timestamps, cycles + 1),
               vehicle_counts |-> network_traffic.vehicle_counts \o << s[1], s[2], s[3] >>]
    /\ cycles' = cycles + 1
    /\ send_k' = 1
    /\ prod_pc' = "send"
    /\ UNCHANGED << ctlVars, stop_event, mainVars, srvVars, netVars >>

ProdExit ==
    /\ prod_pc = "loop"
    /\ is_set(stop_event)
    /\ prod_pc' = "exited"
    /\ UNCHANGED << ctlVars, stop_event, mainVars, send_k, sensors, network_traffic,
                    cycles, srvVars, netVars >>

\* where the sensor thread is after send_data_to_server(data_k) has returned
next_send(k) ==
    IF k = Len(Names) THEN [pc |-> "loop", k |-> 1] ELSE [pc |-> "send", k |-> k + 1]

\* an error of connect or send that leaves send_data_to_server and the thread
uncaught_send_error(connected, k) ==
    IF connected THEN next_send(k) ELSE [pc |-> "crashed", k |-> k]
\* a failed send tried again until it succeeds
retried_send(connected, k) ==
    IF connected THEN next_send(k) ELSE [pc |-> "send", k |-> k]
\* try / except Exception / finally of send_data_to_server: the error is
\* printed, the client socket closed, and the call returns either way
send_returns(connected, k) == next_send(k)

\* send_data_to_server(data_k): connect, send, close; an error is printed.
\* After data_3 the thread sleeps: the sleep (time.sleep(5)) is the time it then
\* spends at "loop" before the loop condition is tested.
ProdSend(conns) ==
    /\ prod_pc = "send"
    /\ IF can_connect(conns)
       THEN /\ pending' = Append(pending, Record(send_k, sensors[send_k]))
            /\ nconn' = nconn + 1
       ELSE UNCHANGED << pending, nconn >>
    /\ prod_pc' = send_returns(can_connect(conns), send_k).pc
    /\ send_k' = send_returns(can_connect(conns), send_k).k
    /\ UNCHANGED << ctlVars, stop_event, mainVars, sensors, network_traffic, cycles,
                    srvVars >>

ProducerSteps(counts, conns, max_cycles) ==
    ProdCycle(counts, max_cycles) \/ ProdExit \/ ProdSend(conns)

ProducerNext == ProducerSteps(SampleCounts, MaxConns, MaxCycles)

\* ---- another client of the port ------------------------------------------
\* a client that connects, sends nothing or bytes that are no record, and closes
ForeignPayloads == {"empty", "malformed"}

\* every payload taken for a record
any_payload_is_record(payload) == TRUE
\* `if data:` is true and json.loads and the two key lookups raise nothing
is_record(payload) == payload.intersection \notin ForeignPayloads

ForeignConnect(conns) ==
    /\ can_connect(conns)
    /\ \E p \in ForeignPayloads :
         pending' = Append(pending, [NoData EXCEPT !.intersection = p])
    /\ nconn' = nconn + 1
    /\ UNCHANGED << ctlVars, stop_event, mainVars, prodVars, srvVars >>

\* ---- Server.start_server (server thread) ---------------------------------
ServerBind ==
    /\ srv_pc = "bind"
    /\ \/ listening' = TRUE /\ srv_pc' = "check"
       \/ listening' = FALSE /\ srv_pc' = "bind_failed"
    /\ UNCHANGED << ctlVars, stop_event, mainVars, prodVars, client_socket,
                    open_accepted, traffic_data, netVars >>

\* while not stop_event.is_set() ... server.close()
ServerCheck ==
    /\ srv_pc = "check"
    /\ IF is_set(stop_event)
       THEN srv_pc' = "exited" /\ listening' = FALSE
       ELSE srv_pc' = "accept" /\ UNCHANGED listening
    /\ UNCHANGED << ctlVars, stop_event, mainVars, prodVars, client_socket,
                    open_accepted, traffic_data, netVars >>

\* the loop iteration ended without the finally clause
finally_missing(next_pc) ==
    /\ srv_pc' = next_pc
    /\ UNCHANGED << listening, client_socket, open_accepted >>
\* finally: client_socket.close().  Closing a closed socket does nothing; with
\* client_socket never assigned the statement raises UnboundLocalError, which
\* leaves the loop and ends the thread (the listener goes with its frame).
finally_close(next_pc) ==
    IF client_socket = "unbound"
    THEN /\ srv_pc' = "crashed"
         /\ listening' = FALSE
         /\ UNCHANGED << client_socket, open_accepted >>
    ELSE /\ srv_pc' = next_pc
         /\ client_socket' = "closed"
         /\ open_accepted' = IF client_socket = "open" THEN open_accepted - 1
                             ELSE open_accepted
         /\ UNCHANGED listening

\* accept times out: except socket.timeout: continue, through the finally
ServerTimeout ==
    /\ srv_pc = "accept"
    /\ pending = << >>
    /\ finally_close("check")
    /\ UNCHANGED << ctlVars, stop_event, mainVars, prodVars, traffic_data, netVars >>

\* accept returns a connection; recv; a record enters manage_traffic; an empty
\* payload skips the if; a decode error is printed by except Exception
ServerAccept ==
    /\ srv_pc = "accept"
    /\ pending # << >>
    /\ pending' = Tail(pending)
    /\ client_socket' = "open"
    /\ open_accepted' = open_accepted + 1
    /\ IF is_record(Head(pending))
       THEN /\ srv_pc' = "manage"
            /\ traffic_data' = Head(pending)
            /\ mt' = [mt EXCEPT ![ServerController] = CallFrame]
       ELSE /\ srv_pc' = "finally"
            /\ UNCHANGED << traffic_data, mt >>
    /\ UNCHANGED << lights, log, calls, iterations, stop_event, mainVars, prodVars, listening, nconn >>

\* manage_traffic returns to line 208
ServerManaged ==
    /\ MtReturns(ServerController)
    /\ mt' = [mt EXCEPT ![ServerController].active = FALSE]
    /\ srv_pc' = "finally"
    /\ UNCHANGED << lights, log, calls, iterations, stop_event, mainVars, prodVars, listening,
                    client_socket, open_accepted, traffic_data, netVars >>

ServerFinally ==
    /\ srv_pc = "finally"
    /\ finally_close("check")
    /\ UNCHANGED << ctlVars, stop_event, mainVars, prodVars, traffic_data, netVars >>

ServerSteps(counts) ==
    \/ ServerBind
    \/ ServerCheck
    \/ ServerTimeout
    \/ ServerAccept
    \/ MtEval(ServerController, counts)
    \/ MtLog(ServerController)
    \/ ServerManaged
    \/ ServerFinally

ServerNext == ServerSteps(SampleCounts)

\* ---- the system ----------------------------------------------------------
InitWith(n) ==
    /\ iterations = [c \in Controllers |-> n]
    /\ lights = [c \in Controllers |-> TrafficController]
    /\ log = << >>
    /\ calls = [c \in Controllers |-> [i \in Idx |-> 0]]
    /\ mt = [c \in Controllers |-> IF c = SystemController THEN CallFrame ELSE IdleFrame]
    /\ stop_event = FALSE
    /\ main_pc = "manage"
    /\ prod_pc = "loop"
    /\ send_k = 1
    /\ sensors = [i \in Idx |-> 0]
    /\ network_traffic = [timestamps |-> << >>, vehicle_counts |-> << >>]
    /\ cycles = 0
    /\ srv_pc = "bind"
    /\ listening = FALSE
    /\ client_socket = "unbound"
    /\ open_accepted = 0
    /\ traffic_data = NoData
    /\ pending = << >>
    /\ nconn = 0

Init == InitWith(Iterations)

Next == MainNext \/ ProducerNext \/ ServerNext \/ ForeignConnect(MaxConns)

Spec == Init /\ [][Next]_vars

\* The control flow of the three threads over more connections.  No guard of
\* any step reads a sampled count, so these runs are explored with every sample
\* at the highest explored count.
FairCounts == {Min(MAX_VEHICLES, MaxSample)}

FairMain == MainSteps(FairCounts)
FairProducer == ProducerSteps(FairCounts, ControlConns, ControlCycles)
FairServer == ServerSteps(FairCounts)

ControlNext == FairMain \/ FairProducer \/ FairServer \/ ForeignConnect(ControlConns)

SpecControl == Init /\ [][ControlNext]_vars

\* fair scheduling of the three threads (no client has to connect)
FairSpec ==
    SpecControl /\ WF_vars(FairMain) /\ WF_vars(FairProducer) /\ WF_vars(FairServer)

\* the same fairness with every explored count
FairSpecAllCounts ==
    Spec /\ WF_vars(MainNext) /\ WF_vars(ProducerNext) /\ WF_vars(ServerNext)

\* the sensor and server threads while the main thread has not been scheduled
\* (the stop event stays unset, so the sensor thread does not leave its loop)
InitReceiver == InitWith(LongIterations)

NextReceiver ==
    \/ ProdCycle(SampleCounts, MaxCycles)
    \/ ProdSend(MaxConns)
    \/ ServerNext
    \/ ForeignConnect(MaxConns)

SpecReceiver == InitReceiver /\ [][NextReceiver]_vars

\* the decision policy alone: one manage_traffic call whose counts are drawn
\* from both sides of each comparison of the policy
PolicyCounts == {0, 1, GREEN_THRESHOLD, GREEN_THRESHOLD + 1}

InitPolicy == InitWith(LongIterations)

NextPolicy == MtEval(SystemController, PolicyCounts) \/ MtLog(SystemController)

SpecPolicy == InitPolicy /\ [][NextPolicy]_vars

\* one manage_traffic call of the real length, while the server thread has not
\* been scheduled (every send of the sensor thread is refused)
InitTen == InitWith(ITERATIONS)

NextTen ==
    \/ MtEval(SystemController, FairCounts)
    \/ MtLog(SystemController)
    \/ MainStop
    \/ MainJoinSensor
    \/ ProducerSteps(FairCounts, MaxConns, MaxCycles)

SpecTen == InitTen /\ [][NextTen]_vars

\* ---- claims ----------------------------------------------------------------

\* C1: once the stop event is set, the receiver takes no step of a decision
\* run (it neither enters manage_traffic nor continues one: it is at most one
\* accept poll away from its exit) and the producer starts no new cycle.
C1_ShutdownWithinOnePoll ==
    [][ stop_event => /\ mt'[ServerController] = mt[ServerController]
                      /\ cycles' = cycles ]_vars

\* C2: an accept timeout never makes the receiver fail: the thread does not end
\* by an exception, and it ends only with the listening socket closed by
\* server.close() after the stop event is set.
C2_TimeoutNeverFails ==
    /\ srv_pc # "crashed"
    /\ (srv_pc = "exited" => stop_event)

\* C3: an evaluation made by the receiver-triggered decision run for a light
\* changes the observation history of the light of that name in the
\* controller the main loop drives and the final report reads.
C3_SharedLights ==
    [][ (/\ srv_pc = "manage"
         /\ mt[ServerController].phase = "next"
         /\ mt'[ServerController].phase = "log")
        => lights'[SystemController][mt[ServerController].idx].vehicle_count_history
             # lights[SystemController][mt[ServerController].idx].vehicle_count_history
      ]_vars

\* C4: the decision run triggered by one decoded record evaluates the policy
\* once per intersection: never more than three evaluations, and exactly three
\* when it returns.
C4_OneCyclePerRecord ==
    /\ mt[ServerController].evals <= Len(Names)
    /\ (MtReturns(ServerController) => mt[ServerController].evals = Len(Names))

\* C5: in the decision run triggered by a record, the count evaluated for the
\* sending intersection is the record's count; with count 0 that light is RED.
C5_RecordCountEvaluated ==
    (/\ srv_pc = "manage"
     /\ mt[ServerController].phase = "log"
     /\ Names[mt[ServerController].idx] = traffic_data.intersection)
    => /\ mt[ServerController].vehicle_count = traffic_data.vehicle_count
       /\ (traffic_data.vehicle_count = 0
             => lights[ServerController][mt[ServerController].idx].state = "RED")

\* C6: after an evaluation of count v the light's state is GREEN if v > 60,
\* RED if v = 0 and YELLOW otherwise, whatever the light and its state before.
C6_PolicyOfCount ==
    \A c \in Controllers :
        (mt[c].active /\ mt[c].phase = "log")
        => lights[c][mt[c].idx].state =
             (IF mt[c].vehicle_count > 60 THEN "GREEN"
              ELSE IF mt[c].vehicle_count = 0 THEN "RED" ELSE "YELLOW")

\* a light that was YELLOW is evaluated with a count above the threshold
C6_Witness ==
    \E i \in Idx :
        /\ mt[SystemController].phase = "log" /\ mt[SystemController].idx = i
        /\ lights[SystemController][i].vehicle_count_history = << 1, GREEN_THRESHOLD + 1 >>
        /\ lights[SystemController][i].state = "GREEN"

\* transitions of controller c on light i whose switch has returned
Completed(c, i) ==
    calls[c][i] - (IF mt[c].active /\ mt[c].phase = "log" /\ mt[c].idx = i THEN 1 ELSE 0)

LogCount(name) == Cardinality({k \in DOMAIN log : log[k].intersection = name})

\* C7: for every light name the log holds exactly one entry per completed
\* transition on a light of that name, from either thread.
C7_OneEntryPerTransition ==
    \A i \in Idx :
        LogCount(Names[i]) = Completed(SystemController, i) + Completed(ServerController, i)

\* both threads have completed a transition on lights of one name
C7_Witness ==
    \E i \in Idx :
        /\ Completed(SystemController, i) >= 1
        /\ Completed(ServerController, i) >= 1
        /\ LogCount(Names[i]) = 2

\* C8: the stop event is unset while the main decision loop runs, is set only
\* when that loop has made all its evaluations, and the run is ended only when
\* the sensor thread and the server thread have ended.
C8_ShutdownProtocol ==
    /\ (main_pc = "manage" => ~ stop_event)
    /\ (stop_event => /\ ~ mt[SystemController].active
                      /\ mt[SystemController].evals
                           = Len(Names) * iterations[SystemController])
    /\ (main_pc = "ended" => /\ prod_pc = "exited"
                             /\ srv_pc \in {"exited", "bind_failed", "crashed"})

\* the run has ended after the receiver ran a decision run and exited
C8_Witness ==
    /\ main_pc = "ended"
    /\ srv_pc = "exited"
    /\ mt[ServerController].evals > 0

\* C9: with the three threads scheduled fairly, every run ends.
C9_RunEnds == <>(main_pc = "ended")

\* the run has ended although the receiver could not bind
C9_Witness ==
    /\ main_pc = "ended"
    /\ srv_pc = "bind_failed"
    /\ cycles > 0

\* C10: whenever the receiver is at the head of its loop, waiting in accept, or
\* has ended, no accepted connection is open.
C10_AcceptedClosed ==
    srv_pc \in {"check", "accept", "exited", "crashed", "bind_failed"}
        => open_accepted = 0

\* two connections were accepted, one of them with a record that was
\* processed, and the receiver is back at the head of its loop with both closed
C10_Witness ==
    /\ srv_pc = "check"
    /\ client_socket = "closed"
    /\ nconn = 2 /\ pending = << >>
    /\ traffic_data # NoData
    /\ mt[ServerController].evals > 0

\* C11: accepting a malformed payload changes no light and appends no event;
\* the finally clause then closes the connection and the receiver is back at
\* the head of its loop, listening; once a connection was accepted the
\* receiver ends only by its exit after the stop event; and a connection that
\* waits while a rejected payload is closed is accepted unless the receiver
\* exits first.
C11_MalformedDropped ==
    /\ [][ (/\ srv_pc = "accept" /\ srv_pc' # srv_pc
            /\ pending # << >> /\ Head(pending).intersection = "malformed")
           => /\ srv_pc' = "finally" /\ client_socket' = "open"
              /\ lights' = lights /\ log' = log /\ calls' = calls /\ mt' = mt ]_vars
    /\ [][ (srv_pc = "finally" /\ srv_pc' # srv_pc)
           => /\ srv_pc' = "check" /\ client_socket' = "closed"
              /\ open_accepted' = 0 /\ listening' ]_vars
    /\ [](client_socket # "unbound"
            => /\ srv_pc # "crashed"
               /\ (srv_pc = "exited" => stop_event)
               /\ (srv_pc # "exited" => listening))
    /\ ((srv_pc = "finally" /\ mt[ServerController].evals = 0 /\ pending # << >>)
          ~> (srv_pc = "exited" \/ pending = << >>))

\* a rejected payload is about to be closed while a record waits to be accepted
C11_Witness ==
    /\ srv_pc = "finally" /\ client_socket = "open"
    /\ mt[ServerController].evals = 0 /\ traffic_data = NoData
    /\ lights[ServerController] = TrafficController
    /\ pending # << >> /\ is_record(Head(pending))

\* C12: when the receiver could not bind, no connection is ever made, the
\* sensor thread goes through every send of its cycle back to its loop and
\* leaves the loop only with the stop event set, the stop event is set only
\* after the main loop made all its evaluations, and the run ends.
C12_BindFailureLocal ==
    /\ [](srv_pc = "bind_failed"
            => /\ ~ listening /\ nconn = 0
               /\ prod_pc \in {"loop", "send", "exited"}
               /\ (prod_pc = "exited" => stop_event)
               /\ (stop_event => mt[SystemController].evals
                                   = Len(Names) * iterations[SystemController]))
    /\ [][ (srv_pc = "bind_failed" /\ prod_pc = "send" /\ prod_pc' # prod_pc)
           => (send_k = Len(Names) /\ prod_pc' = "loop") ]_vars
    /\ (srv_pc = "bind_failed" ~> main_pc = "ended")

\* after a bind failure the sensor thread ran its cycles, every send failing,
\* and the run has ended
C12_Witness ==
    /\ srv_pc = "bind_failed" /\ main_pc = "ended" /\ prod_pc = "exited"
    /\ cycles = ControlCycles /\ nconn = 0
    /\ Len(network_traffic.vehicle_counts) = Len(Names) * ControlCycles

\* evaluations of light i made so far by the running call of controller c
EvaluatedInCall(c, i) ==
    mt[c].iteration_count
      + (IF i < mt[c].idx \/ (i = mt[c].idx /\ mt[c].phase = "log") THEN 1 ELSE 0)

\* C13: one manage_traffic call evaluates the intersections one at a time in
\* the order 1, 2, 3 of every iteration (light i has been evaluated once per
\* finished iteration, and once more when the running iteration has passed
\* it), and returns after 3 evaluations per iteration (30 for the 10 iterations of the
\* code) a mapping whose keys are the three names, each mapped to the count
\* evaluated last for that intersection.
C13_EvaluationsPerCall ==
    LET c == SystemController IN
    /\ mt[c].iteration_count <= iterations[c]
    /\ \A i \in Idx : Len(lights[c][i].vehicle_count_history) = EvaluatedInCall(c, i)
    /\ mt[c].evals = EvaluatedInCall(c, 1) + EvaluatedInCall(c, 2) + EvaluatedInCall(c, 3)
    /\ (mt[c].phase = "next" /\ ~ loop_continues(mt[c].iteration_count, iterations[c]))
         => /\ mt[c].evals = Len(Names) * iterations[c]
            /\ DOMAIN mt[c].intersection_data = {Names[i] : i \in Idx}
            /\ \A i \in Idx :
                 mt[c].intersection_data[Names[i]]
                   = lights[c][i].vehicle_count_history[iterations[c]]

\* the call returns a mapping of counts that differ from those of the
\* iteration before
C13_Witness ==
    LET c == SystemController IN
    /\ mt[c].phase = "next" /\ mt[c].iteration_count = iterations[c]
    /\ mt[c].evals = Len(Names) * LongIterations
    /\ mt[c].intersection_data
         = [n \in {Names[i] : i \in Idx} |->
              IF n = Names[1] THEN 0 ELSE IF n = Names[2] THEN GREEN_THRESHOLD + 1 ELSE 1]
    /\ lights[c][1].vehicle_count_history = << 1, 0 >>
    /\ lights[c][2].vehicle_count_history = << 0, GREEN_THRESHOLD + 1 >>

\* C14 as claimed: at the step that changes a light's state the record of that
\* transition is in the log already, so the records of the light's name are
\* at least as many as the transitions begun on lights of that name.
C14_EventBeforeChange ==
    [][ \A c \in Controllers, i \in Idx :
          lights'[c][i].state # lights[c][i].state
            => LogCount(Names[i])
                 >= calls'[SystemController][i] + calls'[ServerController][i] ]_vars

\* C14 as amended: the step of a transition that sets the state appends
\* nothing, and the next step of the same call appends the record of that
\* light, carrying the state just set, and changes no light.
C14_EventAfterChange ==
    [][ \A c \in Controllers :
          /\ (mt[c].phase = "next" /\ mt'[c].phase = "log") => log' = log
          /\ (mt[c].phase = "log" /\ mt'[c].phase = "next")
               => /\ lights' = lights
                  /\ Len(log') = Len(log) + 1
                  /\ SubSeq(log', 1, Len(log)) = log
                  /\ log'[Len(log')].intersection = Names[mt[c].idx]
                  /\ log'[Len(log')].state = lights[controller_of(c)][mt[c].idx].state ]_vars

\* a light that was RED, with its RED event logged, has been set to GREEN and
\* the GREEN event is not yet in the log
C14_Witness ==
    LET c == SystemController IN
    /\ mt[c].phase = "log" /\ mt[c].idx = 1
    /\ lights[c][1].vehicle_count_history = << 0, GREEN_THRESHOLD + 1 >>
    /\ lights[c][1].state = "GREEN"
    /\ Len(log) = Len(Names)
    /\ log[1].state = "RED"

\* C15: a light that no transition has touched is RED, as created; a light's
\* state is RED, YELLOW or GREEN; update_vehicle_count leaves the state as it
\* is; and the state of a light changes only in the step of a manage_traffic
\* call that makes a switch call on that light.
C15_StateOnlyByTransition ==
    /\ [](\A c \in Controllers, i \in Idx :
            /\ (calls[c][i] = 0 => lights[c][i].state = "RED")
            /\ lights[c][i].state \in {"RED", "YELLOW", "GREEN"}
            /\ \A v \in randint(0, MAX_VEHICLES) :
                 update_vehicle_count(lights[c][i], v).state = lights[c][i].state)
    /\ [][ \A c \in Controllers, i \in Idx :
            lights'[c][i].state # lights[c][i].state
              => /\ Running(c) /\ mt[c].idx = i
                 /\ mt[c].phase = "next" /\ mt'[c].phase = "log"
                 /\ calls'[c][i] = calls[c][i] + 1
                 /\ sensors' = sensors /\ pending' = pending
                 /\ traffic_data' = traffic_data ]_vars

\* sensors were sampled, a record was sent and received, and the lights of the
\* two controllers differ in state
C15_Witness ==
    /\ cycles > 0 /\ traffic_data # NoData
    /\ lights[SystemController][1].state = "YELLOW"
    /\ lights[ServerController][1].state = "RED"
    /\ calls[ServerController][1] > 0
    /\ lights[ServerController][2].state = "YELLOW"

\* a call has set the state of light i of controller object o and has not yet
\* appended the record
InProgress(o, i) ==
    \E c \in Controllers :
        /\ controller_of(c) = o
        /\ mt[c].active /\ mt[c].phase = "log" /\ mt[c].idx = i

C17_PairedSamples ==
    Len(network_traffic.timestamps) = Len(network_traffic.vehicle_counts)

C19_GreenUnreachable ==
    /\ \A c \in Controllers, i \in Idx :
         /\ lights[c][i].state \in {"RED", "YELLOW"}
         /\ \A v \in randint(0, MAX_VEHICLES) :
              decide(update_vehicle_count(lights[c][i], v), v).state \in {"RED", "YELLOW"}
    /\ \A k \in DOMAIN log : log[k].state # "GREEN"

\* lights of one name have been switched by both controllers, to different
\* states, and both events are logged
C19_Witness ==
    \E i \in Idx :
        /\ Completed(SystemController, i) = 1 /\ Completed(ServerController, i) = 1
        /\ lights[SystemController][i].state = "YELLOW"
        /\ lights[ServerController][i].state = "RED"
        /\ \E j, k \in DOMAIN log :
             /\ log[j].intersection = Names[i] /\ log[j].state = "YELLOW"
             /\ log[k].intersection = Names[i] /\ log[k].state = "RED"

\* C20: within one controller the history of every light is as long as the
\* number of switch calls made on it, and every record in the log carries as
\* its vehicle_count the number of records of its light logged so far, itself
\* included: 1 for the first, k for the k-th, whatever counts were evaluated.
C20_CountIsEventNumber ==
    /\ \A i \in Idx :
         Len(lights[SystemController][i].vehicle_count_history)
           = calls[SystemController][i]
    /\ \A j \in DOMAIN log :
         /\ log[j].vehicle_count
              = Cardinality({m \in 1 .. j : log[m].intersection = log[j].intersection})
         /\ log[j].vehicle_count >= 1

\* the second event of a light is logged with vehicle_count 2 although the
\* counts evaluated for it were 61 and 0
C20_Witness ==
    /\ lights[SystemController][1].vehicle_count_history = << GREEN_THRESHOLD + 1, 0 >>
    /\ Len(log) = Len(Names) + 1
    /\ log[Len(log)] = [intersection |-> Names[1], state |-> "RED", vehicle_count |-> 2]
    /\ log[1] = [intersection |-> Names[1], state |-> "GREEN", vehicle_count |-> 1]

====
